---------------------------- MODULE Spec2Model ----------------------------
(***************************************************************************)
(* Model of the NABIMFD mapper (src/map.py): the raw tab-separated         *)
(* artifact is read, filtered to one facility, each row's lender is        *)
(* resolved to an output column and the three-row output table is built    *)
(* and written.                                                            *)
(*                                                                         *)
(* Python strings are TLA+ strings; Python lists are sequences, so a       *)
(* Python index k is position k+1 here. A Python dict is the sequence of   *)
(* its <<key, value>> pairs in insertion order.                            *)
(***************************************************************************)
EXTENDS Integers, Sequences, FiniteSets, TLC

(***************************************************************************)
(* Bounds of the model.                                                    *)
(***************************************************************************)
\* number of data rows of an artifact
MaxRows == 2
\* length of the raw amount strings the amount parser is checked on
MaxAmountLen == 4
MaxDateLines == 2

(***************************************************************************)
(* str methods used by map.py                                              *)
(***************************************************************************)
\* s[i-1], a string of length one
CharAt(s, i) == SubSeq(s, i, i)

ASCII_LOWERCASE == "abcdefghijklmnopqrstuvwxyz"
ASCII_UPPERCASE == "ABCDEFGHIJKLMNOPQRSTUVWXYZ"
WHITESPACE == {" ", "\t", "\n", "\r", "\f"}
DIGITS == "0123456789"
DigitChars == {CharAt(DIGITS, i) : i \in 1..Len(DIGITS)}

\* position of the one-character string c in alphabet, 0 when absent
AlphaIndex(alphabet, c) ==
    IF \E i \in 1..Len(alphabet) : CharAt(alphabet, i) = c
    THEN CHOOSE i \in 1..Len(alphabet) : CharAt(alphabet, i) = c
    ELSE 0

\* the letters one case maps to the other
CaseTable(from, to) ==
    [c \in {CharAt(from, i) : i \in 1..Len(from)} |-> CharAt(to, AlphaIndex(from, c))]

UpperTable == CaseTable(ASCII_LOWERCASE, ASCII_UPPERCASE)
LowerTable == CaseTable(ASCII_UPPERCASE, ASCII_LOWERCASE)

\* the characters lo..hi of s, each mapped through table
RECURSIVE MapChars(_, _, _, _)
MapChars(s, table, lo, hi) ==
    IF lo > hi THEN ""
    ELSE IF lo = hi
         THEN (IF CharAt(s, lo) \in DOMAIN table THEN table[CharAt(s, lo)] ELSE CharAt(s, lo))
         ELSE MapChars(s, table, lo, (lo + hi) \div 2)
                 \o MapChars(s, table, ((lo + hi) \div 2) + 1, hi)

\* str.upper()
upper(s) == MapChars(s, UpperTable, 1, Len(s))

\* str.lower()
lower(s) == MapChars(s, LowerTable, 1, Len(s))

\* str.strip()
strip(s) ==
    LET black == {i \in 1..Len(s) : CharAt(s, i) \notin WHITESPACE}
    IN IF black = {} THEN ""
       ELSE SubSeq(s, CHOOSE i \in black : \A j \in black : i <= j,
                      CHOOSE i \in black : \A j \in black : i >= j)

\* sub in s
contains(s, sub) ==
    \E i \in 1..(Len(s) - Len(sub) + 1) : SubSeq(s, i, i + Len(sub) - 1) = sub

RECURSIVE ReplaceFrom(_, _, _, _)
ReplaceFrom(s, old, new, i) ==
    IF i > Len(s) THEN ""
    ELSE IF i + Len(old) - 1 <= Len(s) /\ SubSeq(s, i, i + Len(old) - 1) = old
         THEN new \o ReplaceFrom(s, old, new, i + Len(old))
         ELSE CharAt(s, i) \o ReplaceFrom(s, old, new, i + 1)

\* str.replace(old, new), old not empty
replace(s, old, new) == ReplaceFrom(s, old, new, 1)

\* s[:n]
prefix(s, n) == SubSeq(s, 1, IF n < Len(s) THEN n ELSE Len(s))

(***************************************************************************)
(* list and dict operations                                                *)
(***************************************************************************)
\* x in lst
InList(x, lst) == \E i \in 1..Len(lst) : lst[i] = x

\* lst.index(x), as a position; x is in lst
ListIndex(lst, x) ==
    CHOOSE i \in 1..Len(lst) : lst[i] = x /\ \A j \in 1..(i - 1) : lst[j] # x

\* k in d
HasKey(d, k) == \E i \in 1..Len(d) : d[i][1] = k

\* d[k]; a key set twice keeps its first position and its last value
DictGet(d, k) ==
    LET hits == {i \in 1..Len(d) : d[i][1] = k}
    IN d[CHOOSE i \in hits : \A j \in hits : i >= j][2]

\* the keys of d in iteration order (d has no key twice)
Keys(d) == [i \in 1..Len(d) |-> d[i][1]]

(***************************************************************************)
(* Module constants of map.py                                              *)
(***************************************************************************)
COUNTRY_CODES == <<
    <<"Australia", "NABIMFD.AUS.M">>,
    <<"Austria", "NABIMFD.AUT.M">>,
    <<"Belgium", "NABIMFD.BEL.M">>,
    <<"Brazil", "NABIMFD.BRA.M">>,
    <<"Canada", "NABIMFD.CAN.M">>,
    <<"Chile", "NABIMFD.CHL.M">>,
    <<"China", "NABIMFD.CHN.M">>,
    <<"Cyprus", "NABIMFD.CYP.M">>,
    <<"Denmark", "NABIMFD.DNK.M">>,
    <<"Finland", "NABIMFD.FIN.M">>,
    <<"France", "NABIMFD.FRA.M">>,
    <<"Germany", "NABIMFD.DEU.M">>,
    <<"Greece", "NABIMFD.GRC.M">>,
    <<"India", "NABIMFD.IND.M">>,
    <<"Ireland", "NABIMFD.IRL.M">>,
    <<"Israel", "NABIMFD.ISR.M">>,
    <<"Italy", "NABIMFD.ITA.M">>,
    <<"Japan", "NABIMFD.JPN.M">>,
    <<"Korea", "NABIMFD.KOR.M">>,
    <<"Kuwait", "NABIMFD.KWT.M">>,
    <<"Luxembourg", "NABIMFD.LUX.M">>,
    <<"Malaysia", "NABIMFD.MYS.M">>,
    <<"Mexico", "NABIMFD.MEX.M">>,
    <<"Netherlands", "NABIMFD.NLD.M">>,
    <<"New Zealand", "NABIMFD.NZL.M">>,
    <<"Norway", "NABIMFD.NOR.M">>,
    <<"Philippines", "NABIMFD.PHL.M">>,
    <<"Poland", "NABIMFD.POL.M">>,
    <<"Portugal", "NABIMFD.PRT.M">>,
    <<"Russian Federation", "NABIMFD.RUS.M">>,
    <<"Russia", "NABIMFD.RUS.M">>,
    <<"Saudi Arabia", "NABIMFD.SAU.M">>,
    <<"Singapore", "NABIMFD.SGP.M">>,
    <<"South Africa", "NABIMFD.ZAF.M">>,
    <<"Spain", "NABIMFD.ESP.M">>,
    <<"Sweden", "NABIMFD.SWE.M">>,
    <<"Switzerland", "NABIMFD.CHE.M">>,
    <<"Thailand", "NABIMFD.THA.M">>,
    <<"United Kingdom", "NABIMFD.GBR.M">>,
    <<"United States", "NABIMFD.USA.M">>,
    <<"Hong Kong", "NABIMFD.HKG.M">> >>

STANDARD_COLUMN_ORDER == <<
    "",
    "NABIMFD.AUS.M", "NABIMFD.AUT.M", "NABIMFD.BEL.M", "NABIMFD.BRA.M",
    "NABIMFD.CAN.M", "NABIMFD.CHL.M", "NABIMFD.CHN.M", "NABIMFD.CYP.M",
    "NABIMFD.DNK.M", "NABIMFD.FIN.M", "NABIMFD.FRA.M", "NABIMFD.DEU.M",
    "NABIMFD.GRC.M", "NABIMFD.IND.M", "NABIMFD.IRL.M", "NABIMFD.ISR.M",
    "NABIMFD.ITA.M", "NABIMFD.JPN.M", "NABIMFD.KOR.M", "NABIMFD.KWT.M",
    "NABIMFD.LUX.M", "NABIMFD.MYS.M", "NABIMFD.MEX.M", "NABIMFD.NLD.M",
    "NABIMFD.NZL.M", "NABIMFD.NOR.M", "NABIMFD.PHL.M", "NABIMFD.POL.M",
    "NABIMFD.PRT.M", "NABIMFD.RUS.M", "NABIMFD.SAU.M", "NABIMFD.SGP.M",
    "NABIMFD.ZAF.M", "NABIMFD.ESP.M", "NABIMFD.SWE.M", "NABIMFD.CHE.M",
    "NABIMFD.THA.M", "NABIMFD.GBR.M", "NABIMFD.USA.M", "NABIMFD.HKG.M" >>


\* line 247: the three-letter codes the code tier accepts
THREE_LETTER_CODES == <<
    "AUS", "AUT", "BEL", "BRA", "CAN", "CHL", "CHN", "CYP", "DNK", "FIN",
    "FRA", "DEU", "GRC", "IND", "IRL", "ISR", "ITA", "JPN", "KOR", "KWT",
    "LUX", "MYS", "MEX", "NLD", "NZL", "NOR", "PHL", "POL", "PRT", "RUS",
    "SAU", "SGP", "ZAF", "ESP", "SWE", "CHE", "THA", "GBR", "USA" >>

\* the table with the countries of FIN and FRA exchanged
code_to_country_map_exchanged == <<
    <<"AUS", "Australia">>, <<"AUT", "Austria">>, <<"BEL", "Belgium">>,
    <<"BRA", "Brazil">>, <<"CAN", "Canada">>, <<"CHL", "Chile">>,
    <<"CHN", "China">>, <<"CYP", "Cyprus">>, <<"DNK", "Denmark">>,
    <<"FIN", "France">>, <<"FRA", "Finland">>, <<"DEU", "Germany">>,
    <<"GRC", "Greece">>, <<"IND", "India">>, <<"IRL", "Ireland">>,
    <<"ISR", "Israel">>, <<"ITA", "Italy">>, <<"JPN", "Japan">>,
    <<"KOR", "Korea">>, <<"KWT", "Kuwait">>, <<"LUX", "Luxembourg">>,
    <<"MYS", "Malaysia">>, <<"MEX", "Mexico">>, <<"NLD", "Netherlands">>,
    <<"NZL", "New Zealand">>, <<"NOR", "Norway">>, <<"PHL", "Philippines">>,
    <<"POL", "Poland">>, <<"PRT", "Portugal">>,
    <<"RUS", "Russian Federation">>, <<"SAU", "Saudi Arabia">>,
    <<"SGP", "Singapore">>, <<"ZAF", "South Africa">>, <<"ESP", "Spain">>,
    <<"SWE", "Sweden">>, <<"CHE", "Switzerland">>, <<"THA", "Thailand">>,
    <<"GBR", "United Kingdom">>, <<"USA", "United States">> >>

\* lines 249-289
code_to_country_map == <<
    <<"AUS", "Australia">>, <<"AUT", "Austria">>, <<"BEL", "Belgium">>,
    <<"BRA", "Brazil">>, <<"CAN", "Canada">>, <<"CHL", "Chile">>,
    <<"CHN", "China">>, <<"CYP", "Cyprus">>, <<"DNK", "Denmark">>,
    <<"FIN", "Finland">>, <<"FRA", "France">>, <<"DEU", "Germany">>,
    <<"GRC", "Greece">>, <<"IND", "India">>, <<"IRL", "Ireland">>,
    <<"ISR", "Israel">>, <<"ITA", "Italy">>, <<"JPN", "Japan">>,
    <<"KOR", "Korea">>, <<"KWT", "Kuwait">>, <<"LUX", "Luxembourg">>,
    <<"MYS", "Malaysia">>, <<"MEX", "Mexico">>, <<"NLD", "Netherlands">>,
    <<"NZL", "New Zealand">>, <<"NOR", "Norway">>, <<"PHL", "Philippines">>,
    <<"POL", "Poland">>, <<"PRT", "Portugal">>,
    <<"RUS", "Russian Federation">>, <<"SAU", "Saudi Arabia">>,
    <<"SGP", "Singapore">>, <<"ZAF", "South Africa">>, <<"ESP", "Spain">>,
    <<"SWE", "Sweden">>, <<"CHE", "Switzerland">>, <<"THA", "Thailand">>,
    <<"GBR", "United Kingdom">>, <<"USA", "United States">> >>

\* lines 304-319
exact_matches == <<
    <<"Australia", <<"Australia">> >>,
    <<"Austria", <<"Austria">> >>,
    <<"Belgium", <<"Belgium">> >>,
    <<"Hong Kong", <<"Hong Kong Monetary Authority", "HKMA">> >>,
    <<"Chile", <<"Chile (Banco Central de Chile)">> >>,
    <<"Denmark", <<"Denmark (Danmarks Nationalbank)">> >>,
    <<"Germany", <<"Germany (Deutsche Bundesbank)">> >>,
    <<"Israel", <<"Israel (Bank of Israel)">> >>,
    <<"Netherlands", <<"Netherlands, The">> >>,
    <<"Philippines", <<"Philippines (Bangko Sentral ng Pilipinas)">> >>,
    <<"Poland", <<"Poland, Republic of (National Bank of Poland)">> >>,
    <<"Portugal", <<"Portugal (Banco de Portugal)">> >>,
    <<"Sweden", <<"Sweden (Sveriges Riksbank)">> >>,
    <<"Switzerland", <<"Switzerland (Swiss National Bank)">> >> >>

\* lines 337-343
simple_country_names == <<
    "Brazil", "Canada", "China", "Cyprus", "Finland", "France",
    "Greece", "India", "Ireland", "Italy", "Japan", "Korea",
    "Kuwait", "Luxembourg", "Malaysia", "Mexico", "New Zealand",
    "Norway", "Russian Federation", "Saudi Arabia", "Singapore",
    "South Africa", "Spain", "Thailand", "United Kingdom", "United States" >>

\* line 158
facility_filter == "New Arrangement to Borrow"

(***************************************************************************)
(* Values: None, floats, and the cells of the data frame                   *)
(***************************************************************************)
None == [type |-> "NoneType", special |-> "", neg |-> FALSE, mant |-> 0, scale |-> 0]

\* the float (-1)^neg * mant / 10^scale, or nan / inf when special says so
Float(special, neg, mant, scale) ==
    [type |-> "float", special |-> special, neg |-> neg, mant |-> mant, scale |-> scale]

\* what float() raises on a string that is no float literal
ValueError == [type |-> "ValueError", special |-> "", neg |-> FALSE, mant |-> 0, scale |-> 0]

\* the strings pandas.read_csv reads as a missing value (its default na_values)
STR_NA_VALUES == {"", "#N/A", "#N/A N/A", "#NA", "-1.#IND", "-1.#QNAN", "-NaN",
                  "-nan", "1.#IND", "1.#QNAN", "<NA>", "N/A", "NA", "NULL", "NaN",
                  "None", "n/a", "nan", "null"}

\* a cell of the data frame read from the field text; str() of a missing cell is "nan"
Cell(field) ==
    IF field \in STR_NA_VALUES THEN [isna |-> TRUE, str |-> "nan"]
    ELSE [isna |-> FALSE, str |-> field]

(***************************************************************************)
(* float(s) for the strings made of digits, ".", a sign, letters and       *)
(* blanks (no exponent, no underscore)                                     *)
(***************************************************************************)
IsDigits(s) == \A i \in 1..Len(s) : CharAt(s, i) \in DigitChars

RECURSIVE IntOf(_)
IntOf(s) ==
    IF s = "" THEN 0
    ELSE 10 * IntOf(SubSeq(s, 1, Len(s) - 1)) + (AlphaIndex(DIGITS, CharAt(s, Len(s))) - 1)

RECURSIVE Normalized(_, _, _)
Normalized(neg, mant, scale) ==
    IF scale > 0 /\ mant % 10 = 0 THEN Normalized(neg, mant \div 10, scale - 1)
    ELSE Float("", neg, mant, scale)

float(s) ==
    LET t == lower(strip(s))
        signed == t # "" /\ CharAt(t, 1) \in {"+", "-"}
        neg == signed /\ CharAt(t, 1) = "-"
        body == IF signed THEN SubSeq(t, 2, Len(t)) ELSE t
        dots == {i \in 1..Len(body) : CharAt(body, i) = "."}
        dot == IF dots = {} THEN Len(body) + 1 ELSE CHOOSE i \in dots : TRUE
        ip == SubSeq(body, 1, dot - 1)
        fp == SubSeq(body, dot + 1, Len(body))
    IN IF body = "nan" THEN Float("nan", neg, 0, 0)
       ELSE IF body \in {"inf", "infinity"} THEN Float("inf", neg, 0, 0)
       ELSE IF /\ Cardinality(dots) <= 1
               /\ IsDigits(ip) /\ IsDigits(fp)
               /\ Len(ip) + Len(fp) >= 1
            THEN Normalized(neg, IntOf(ip \o fp), Len(fp))
            ELSE ValueError

\* ParseAmount with the commas left in
ParseAmountKeepingCommas(amount_str) ==
    LET clean_amount == replace(amount_str, " ", "")
        parsed == IF clean_amount # "" /\ clean_amount # "nan"
                  THEN float(clean_amount) ELSE None
    IN IF parsed = ValueError THEN None ELSE parsed

\* lines 231-237: the amount of a row, None when it does not parse
ParseAmount(amount_str) ==
    LET clean_amount == replace(replace(amount_str, ",", ""), " ", "")
        parsed == IF clean_amount # "" /\ clean_amount # "nan"
                  THEN float(clean_amount) ELSE None
    IN IF parsed = ValueError THEN None ELSE parsed

(***************************************************************************)
(* The country resolver: the three tiers of main(), lines 240-356. Each    *)
(* tier takes the data row and returns the matched flag and the data row   *)
(* it leaves.                                                              *)
(***************************************************************************)
Unmatched(data_row) == [matched |-> FALSE, data_row |-> data_row]

\* lines 295-298, 327-330, 349-352: data_row[idx] = amount; matched = True
\* Matched leaving a cell that already holds an amount as it is
MatchedKeepingFirst(data_row, code, amount) ==
    [matched |-> TRUE,
     data_row |-> [data_row EXCEPT ![ListIndex(STANDARD_COLUMN_ORDER, code)] =
                      IF @ = None THEN amount ELSE @]]

Matched(data_row, code, amount) ==
    [matched |-> TRUE,
     data_row |-> [data_row EXCEPT ![ListIndex(STANDARD_COLUMN_ORDER, code)] = amount]]

\* line 245: country.replace(' ', '').upper()[:3] of the k-th registry entry
CountryPrefix == [k \in 1..Len(COUNTRY_CODES) |->
                    prefix(upper(replace(COUNTRY_CODES[k][1], " ", "")), 3)]

\* line 245: the guard on the k-th registry entry; code_upper is member_code.upper()
CodeGuard(k, code_upper) ==
    /\ InList(COUNTRY_CODES[k][2], STANDARD_COLUMN_ORDER)
    /\ code_upper = CountryPrefix[k]

\* lines 247-294: the country the accepted code stands for, "" when there is none
MatchedCountry(code_upper) ==
    IF /\ InList(code_upper, THREE_LETTER_CODES)
       /\ HasKey(code_to_country_map, code_upper)
       /\ HasKey(COUNTRY_CODES, DictGet(code_to_country_map, code_upper))
       /\ InList(DictGet(COUNTRY_CODES, DictGet(code_to_country_map, code_upper)),
                 STANDARD_COLUMN_ORDER)
    THEN DictGet(code_to_country_map, code_upper)
    ELSE ""

\* lines 244-299, from the k-th entry of COUNTRY_CODES on
RECURSIVE CodeTierFrom(_, _, _, _)
CodeTierFrom(k, data_row, code_upper, amount) ==
    IF k > Len(COUNTRY_CODES) THEN Unmatched(data_row)
    ELSE IF CodeGuard(k, code_upper) /\ MatchedCountry(code_upper) # ""
         THEN Matched(data_row, DictGet(COUNTRY_CODES, MatchedCountry(code_upper)), amount)
         ELSE CodeTierFrom(k + 1, data_row, code_upper, amount)

CodeTier(data_row, member_code, amount) ==
    CodeTierFrom(1, data_row, upper(member_code), amount)

\* line 324: variant.lower() of the v-th variant of the k-th entry of exact_matches
VariantLower == [k \in 1..Len(exact_matches) |->
                    [v \in 1..Len(exact_matches[k][2]) |-> lower(exact_matches[k][2][v])]]

\* VariantMatches without the "variant in member_name" alternative
VariantEquals(k, v, member_name, name_lower) == VariantLower[k][v] = name_lower

\* line 324; name_lower is member_name.lower()
VariantMatches(k, v, member_name, name_lower) ==
    VariantLower[k][v] = name_lower \/ contains(member_name, exact_matches[k][2][v])

\* lines 321-333, from the v-th variant of the k-th entry of exact_matches on
RECURSIVE ExactTierFrom(_, _, _, _, _, _)
ExactTierFrom(k, v, data_row, member_name, name_lower, amount) ==
    IF k > Len(exact_matches) THEN Unmatched(data_row)
    ELSE LET country == exact_matches[k][1]
             variants == exact_matches[k][2]
         IN IF ~HasKey(COUNTRY_CODES, country) \/ v > Len(variants)
            THEN ExactTierFrom(k + 1, 1, data_row, member_name, name_lower, amount)
            ELSE IF /\ VariantMatches(k, v, member_name, name_lower)
                    /\ InList(DictGet(COUNTRY_CODES, country), STANDARD_COLUMN_ORDER)
                 THEN Matched(data_row, DictGet(COUNTRY_CODES, country), amount)
                 ELSE ExactTierFrom(k, v + 1, data_row, member_name, name_lower, amount)

ExactTier(data_row, member_name, amount) ==
    ExactTierFrom(1, 1, data_row, member_name, lower(member_name), amount)

\* line 346: country.lower() of the k-th simple name
SimpleLower == [k \in 1..Len(simple_country_names) |-> lower(simple_country_names[k])]

\* lines 345-353, from the k-th simple name on; name_lower is member_name.lower()
RECURSIVE SimpleTierFrom(_, _, _, _)
SimpleTierFrom(k, data_row, name_lower, amount) ==
    IF k > Len(simple_country_names) THEN Unmatched(data_row)
    ELSE LET country == simple_country_names[k]
         IN IF /\ HasKey(COUNTRY_CODES, country)
               /\ SimpleLower[k] = name_lower
               /\ InList(DictGet(COUNTRY_CODES, country), STANDARD_COLUMN_ORDER)
            THEN Matched(data_row, DictGet(COUNTRY_CODES, country), amount)
            ELSE SimpleTierFrom(k + 1, data_row, name_lower, amount)

SimpleTier(data_row, member_name, amount) ==
    SimpleTierFrom(1, data_row, lower(member_name), amount)

\* Resolve with the amount of a record no tier matched written at the last column
ResolveWithDefault(data_row, member_name, member_code, amount) ==
    LET t1 == CodeTier(data_row, member_code, amount)
        t2 == IF ~t1.matched THEN ExactTier(t1.data_row, member_name, amount) ELSE t1
        t3 == IF ~t2.matched THEN SimpleTier(t2.data_row, member_name, amount) ELSE t2
    IN IF t3.matched THEN t3
       ELSE [matched |-> FALSE,
             data_row |-> [data_row EXCEPT ![Len(STANDARD_COLUMN_ORDER)] = amount]]

\* Resolve with the "if not matched" guards of lines 302 and 336 left out
ResolveEveryTier(data_row, member_name, member_code, amount) ==
    LET t1 == CodeTier(data_row, member_code, amount)
        t2 == ExactTier(t1.data_row, member_name, amount)
        t3 == SimpleTier(t2.data_row, member_name, amount)
    IN [matched |-> t1.matched \/ t2.matched \/ t3.matched, data_row |-> t3.data_row]

\* lines 241-356: the tiers in order, each entered only while nothing matched
Resolve(data_row, member_name, member_code, amount) ==
    LET t1 == CodeTier(data_row, member_code, amount)
        t2 == IF ~t1.matched THEN ExactTier(t1.data_row, member_name, amount) ELSE t1
        t3 == IF ~t2.matched THEN SimpleTier(t2.data_row, member_name, amount) ELSE t2
    IN t3

\* lines 227-229: the three fields the loop body reads from a row
member_name_of(row) == strip(row.member.str)
member_code_of(row) == IF ~row.code.isna THEN strip(row.code.str) ELSE ""
amount_of(row) == ParseAmount(strip(row.amount.str))

\* lines 226-356: the body of the loop over filtered_df, the data row it leaves
MapRow(data_row, row) ==
    LET amount == amount_of(row)
    IN IF amount # None
       THEN Resolve(data_row, member_name_of(row), member_code_of(row), amount).data_row
       ELSE data_row

(***************************************************************************)
(* extract_date_from_tsv_file, lines 70-122. The regular expressions are   *)
(* matched as re.search matches them: leftmost, greedy.                    *)
(***************************************************************************)
Min(S) == CHOOSE x \in S : \A y \in S : x <= y

\* the first position from i on whose character is not in chars, Len(s)+1 if none
SkipChars(s, i, chars) ==
    LET stops == {j \in i..Len(s) : CharAt(s, j) \notin chars}
    IN IF stops = {} THEN Len(s) + 1 ELSE Min(stops)

\* the first position from i on whose character is in chars, Len(s)+1 if none
FindChars(s, i, chars) ==
    LET stops == {j \in i..Len(s) : CharAt(s, j) \in chars}
    IN IF stops = {} THEN Len(s) + 1 ELSE Min(stops)

\* the literal lit (in lower case) at position i of ls, the text in lower case:
\* a literal of a pattern under re.IGNORECASE
IMatch(ls, i, lit) ==
    i + Len(lit) - 1 <= Len(ls) /\ SubSeq(ls, i, i + Len(lit) - 1) = lit

IsDigitAt(s, i) == i <= Len(s) /\ CharAt(s, i) \in DigitChars

\* lines 80-84: where the group of the k-th "As of" pattern starts when the
\* pattern matches at p, 0 when it does not match at p; ls is the text in lower
\* case. A start past the end stands for the matches whose group is blank (or
\* for no match at all, the text after the marker being blank to its end): no
\* date either way.
GroupStart(k, ls, p) ==
    IF k = 1 THEN
        IF IMatch(ls, p, "as of:") THEN SkipChars(ls, p + 6, WHITESPACE) ELSE 0
    ELSE IF k = 2 THEN
        IF IMatch(ls, p, "as of")
        THEN LET c == SkipChars(ls, p + 5, WHITESPACE)
             IN IF c <= Len(ls) /\ CharAt(ls, c) = ":"
                THEN SkipChars(ls, c + 1, WHITESPACE) ELSE 0
        ELSE 0
    ELSE
        IF IMatch(ls, p, "as of") /\ p + 5 <= Len(ls)
           /\ CharAt(ls, p + 5) \in WHITESPACE \cup {":"}
        THEN SkipChars(ls, p + 5, WHITESPACE \cup {":"}) ELSE 0

\* lines 87-89: re.search of the k-th pattern in s and its group(1); ls is s in
\* lower case
AsOfSearch(k, s, ls) ==
    LET ps == {p \in 1..Len(s) : GroupStart(k, ls, p) # 0}
        q == GroupStart(k, ls, Min(ps))
    IN IF ps = {} THEN [found |-> FALSE, text |-> ""]
       ELSE [found |-> TRUE,
             text |-> SubSeq(s, q, FindChars(s, q, {"\r", "\n", "\t"}) - 1)]

MONTH_NAMES == <<"January", "February", "March", "April", "May", "June", "July",
                 "August", "September", "October", "November", "December">>

NoDate == [ok |-> FALSE, month |-> 0, day |-> "", year |-> ""]

LowerMonths == [m \in 1..12 |-> lower(MONTH_NAMES[m])]

\* lines 93, 107: the long-form date pattern matched at position d of ls, the
\* text in lower case (the pattern is matched under re.IGNORECASE)
DateAt(ls, d) ==
    LET ms == {m \in 1..12 : IMatch(ls, d, LowerMonths[m])}
        m == CHOOSE x \in ms : TRUE
        a == d + Len(MONTH_NAMES[m])
        b == SkipChars(ls, a, WHITESPACE)
        c == IF IsDigitAt(ls, b + 1) THEN b + 2 ELSE b + 1
        e == IF c <= Len(ls) /\ CharAt(ls, c) = "," THEN c + 1 ELSE c
        f == SkipChars(ls, e, WHITESPACE)
    IN IF /\ ms # {}
          /\ b > a /\ IsDigitAt(ls, b)
          /\ f > e /\ \A j \in f..(f + 3) : IsDigitAt(ls, j)
       THEN [ok |-> TRUE, month |-> m, day |-> SubSeq(ls, b, c - 1),
             year |-> SubSeq(ls, f, f + 3)]
       ELSE NoDate

\* re.search / re.findall(...)[0] of the long-form date pattern in s
FirstDate(s) ==
    LET ls == lower(s)
        ds == {d \in 1..Len(s) : DateAt(ls, d).ok}
    IN IF ds = {} THEN NoDate ELSE DateAt(ls, Min(ds))

IsLeap(y) == y % 4 = 0 /\ (y % 100 # 0 \/ y % 400 = 0)

DaysInMonth(y, m) ==
    IF m = 2 THEN (IF IsLeap(y) THEN 29 ELSE 28)
    ELSE IF m \in {4, 6, 9, 11} THEN 30 ELSE 31

\* lines 100, 112: datetime.strptime raises ValueError on a date that does not exist
StrptimeOk(date) ==
    /\ IntOf(date.year) >= 1
    /\ IntOf(date.day) >= 1
    /\ IntOf(date.day) <= DaysInMonth(IntOf(date.year), date.month)

RECURSIVE Decimal(_)
Decimal(n) ==
    IF n < 10 THEN CharAt(DIGITS, n + 1)
    ELSE Decimal(n \div 10) \o CharAt(DIGITS, (n % 10) + 1)

RECURSIVE ZeroPad(_, _)
ZeroPad(str, width) == IF Len(str) >= width THEN str ELSE ZeroPad("0" \o str, width)

\* the C libraries strftime('%Y') goes to: "glibc" writes a year below 1000
\* without leading zeros, "padded" stands for those that write four digits
PLATFORMS == {"glibc", "padded"}

\* lines 101, 113: strftime('%Y-%m') of a date strptime accepted
Strftime(date, platform) ==
    (IF platform = "glibc" THEN Decimal(IntOf(date.year))
     ELSE ZeroPad(Decimal(IntOf(date.year)), 4))
        \o "-" \o ZeroPad(Decimal(date.month), 2)

\* the month of the clock whatever the date
FormatAsNow(date, now, platform) == now

\* lines 100-103, 112-115: the date formatted, or the except branch, lines 120-122
FormatOrNow(date, now, platform) ==
    IF StrptimeOk(date) THEN Strftime(date, platform) ELSE now

\* lines 86-103 from the k-th pattern on, then lines 105-118; lowered is the
\* content in lower case
RECURSIVE AsOfLoop(_, _, _, _, _)
AsOfLoop(k, content, lowered, now, platform) ==
    IF k > 3 THEN
        (IF FirstDate(content).ok THEN FormatOrNow(FirstDate(content), now, platform)
         ELSE now)
    ELSE LET as_of_match == AsOfSearch(k, content, lowered)
             date_match == FirstDate(strip(as_of_match.text))
         IN IF as_of_match.found /\ date_match.ok
            THEN FormatOrNow(date_match, now, platform)
            ELSE AsOfLoop(k + 1, content, lowered, now, platform)

\* the month of the clock whatever the content
extract_date_from_clock(readable, content, now, platform) == now

\* the report date of an artifact; now is the month of the clock, "YYYY-MM"
extract_date_from_tsv_file(readable, content, now, platform) ==
    IF readable THEN AsOfLoop(1, content, lower(content), now, platform) ELSE now

(***************************************************************************)
(* The data frame and the output table, main() lines 142-179               *)
(***************************************************************************)
\* line 147: one data row of the artifact read into the named columns
ReadRow(fields) ==
    [member |-> Cell(fields.member), code |-> Cell(fields.code),
     facility |-> Cell(fields.facility), amount |-> Cell(fields.amount)]

\* line 147: read_csv of the rows after the eight header lines
read_csv(rows) == [k \in 1..Len(rows) |-> ReadRow(rows[k])]

\* lines 150-151: rows with a missing value or with 'Member' in the lender are dropped
Cleaned(df) ==
    LET Keep(row) == /\ ~row.member.isna /\ ~row.facility.isna /\ ~row.amount.isna
                     /\ ~contains(row.member.str, "Member")
    IN SelectSeq(df, Keep)

\* FacilityMatches comparing without regard to case
FacilityMatchesAnyCase(row) == lower(strip(row.facility.str)) = lower(facility_filter)

\* line 159
FacilityMatches(row) == strip(row.facility.str) = facility_filter

\* line 159: filtered_df
Filtered(df) == SelectSeq(df, FacilityMatches)

\* the registry inverted so that of two names with one code the earlier one stays
code_to_country_keeping_first ==
    [k \in 1..Len(COUNTRY_CODES) |->
        <<COUNTRY_CODES[Len(COUNTRY_CODES) + 1 - k][2], COUNTRY_CODES[Len(COUNTRY_CODES) + 1 - k][1]>>]

\* line 126: the registry inverted; of two names with one code the later one stays
code_to_country == [k \in 1..Len(COUNTRY_CODES) |-> <<COUNTRY_CODES[k][2], COUNTRY_CODES[k][1]>>]

\* line 127 alone: the code without its prefix and suffix
get_country_name_by_stripping(country_code) ==
    replace(replace(country_code, "NABIMFD.", ""), ".M", "")

\* lines 124-127
get_country_name_from_code(country_code) ==
    IF HasKey(code_to_country, country_code) THEN DictGet(code_to_country, country_code)
    ELSE replace(replace(country_code, "NABIMFD.", ""), ".M", "")

\* lines 172-175
HeaderRow2 ==
    <<"">> \o [j \in 1..(Len(STANDARD_COLUMN_ORDER) - 1) |->
                 "New Arrangement to Borrow IMF Data: "
                    \o get_country_name_from_code(STANDARD_COLUMN_ORDER[j + 1])]

\* a data row that starts with zeros in the place of None
InitialDataRowOfZeros(report_date) ==
    <<report_date>> \o [j \in 1..(Len(STANDARD_COLUMN_ORDER) - 1) |-> Float("", FALSE, 0, 0)]

\* lines 178-179
InitialDataRow(report_date) ==
    <<report_date>> \o [j \in 1..(Len(STANDARD_COLUMN_ORDER) - 1) |-> None]

(***************************************************************************)
(* The serializer, main() lines 358-392                                    *)
(***************************************************************************)
RECURSIVE Pow10(_)
Pow10(n) == IF n = 0 THEN 1 ELSE 10 * Pow10(n - 1)

\* str(x) of a float in the range repr() writes without an exponent
FloatStr(x) ==
    IF x.special # "" THEN (IF x.neg THEN "-" ELSE "") \o x.special
    ELSE (IF x.neg THEN "-" ELSE "")
            \o Decimal(x.mant \div Pow10(x.scale)) \o "."
            \o (IF x.scale = 0 THEN "0"
                ELSE ZeroPad(Decimal(x.mant % Pow10(x.scale)), x.scale))

\* line 385
numeric_value(cell) == float(replace(FloatStr(cell), ",", ""))

\* lines 380-389: the columns of row 3 written as numbers with the format '#,##0';
\* write() raises on nan and inf, and the writing stops there
Writable(cell) == numeric_value(cell) # ValueError /\ numeric_value(cell).special = ""

FirstUnwritable(data_row) ==
    LET bad == {c \in 2..Len(data_row) : data_row[c] # None /\ ~Writable(data_row[c])}
    IN IF bad = {} THEN Len(data_row) + 1 ELSE Min(bad)

\* lines 359-392: the sheet as written: the three rows, row 3 with its numbers,
\* and the columns of row 3 that carry the number format
Sheet(header_row_1, header_row_2, data_row) ==
    LET stop == FirstUnwritable(data_row)
        written == {c \in 2..(stop - 1) : data_row[c] # None}
    IN [rows |-> <<header_row_1, header_row_2,
                   [c \in 1..Len(data_row) |->
                       IF c \in written THEN numeric_value(data_row[c]) ELSE data_row[c]]>>,
        number_format |-> written,
        complete |-> stop > Len(data_row)]

NoSheet == [rows |-> <<>>, number_format |-> {}, complete |-> FALSE]

(***************************************************************************)
(* The inputs of a run: the artifact on disk and the clock                 *)
(***************************************************************************)
Row(member, code, facility, amount) ==
    [member |-> member, code |-> code, facility |-> facility, amount |-> amount]

\* the data rows an artifact is made of: the fields the mapper reads
SampleRows == {
    Row("France", "FRA", "New Arrangement to Borrow", "500,000"),
    Row("Stand-By Co.", "", "Stand-By Arrangement", "999"),
    Row("Banque de France", "fra", "New Arrangement to Borrow  ", "1,234,567"),
    Row("Germany (Deutsche Bundesbank)", "", "New Arrangement to Borrow", "25"),
    Row("sweden (sveriges riksbank)", "", "New Arrangement to Borrow", "30"),
    Row("Deutsche Bundesbank", "DEU", "New Arrangement to Borrow", "70"),
    Row("Atlantis", "", "New Arrangement to Borrow", "12"),
    Row("france", "", " New Arrangement to Borrow", " 7 "),
    Row("Australia", "FRA", "New Arrangement to Borrow", "3"),
    Row("HKMA for Chile (Banco Central de Chile)", "", "New Arrangement to Borrow", "8"),
    Row("Japan", "", "New Arrangement to Borrow", "abc"),
    Row("France", "", "new arrangement to borrow", "44"),
    Row("Member Bank of Canada", "CAN", "New Arrangement to Borrow", "5"),
    Row("Canada", "", "New Arrangement to Borrow", "") }

\* the eight header lines of an artifact
SampleHeaders == {
    "IMF Financial Data\nBorrowing Arrangements\nAs of: June 30, 2025\n\n\n\n\nMember\tCode\n",
    "IMF Financial Data\n\n\n\n\n\n\nMember\tCode\n" }

\* the month of the clock when the mapper runs
SampleClock == {"2026-11"}

RECURSIVE Sequences(_, _)
Sequences(S, n) ==
    IF n = 0 THEN {<<>>}
    ELSE Sequences(S, n - 1)
            \cup {Append(q, x) : q \in {r \in Sequences(S, n - 1) : Len(r) = n - 1}, x \in S}

Artifact(header, rows) == [exists |-> TRUE, readable |-> TRUE, header |-> header, rows |-> rows]
MissingArtifact == [exists |-> FALSE, readable |-> FALSE, header |-> "", rows |-> <<>>]
UnreadableArtifact == [exists |-> TRUE, readable |-> FALSE, header |-> "", rows |-> <<>>]

Artifacts ==
    {Artifact(h, rows) : h \in SampleHeaders, rows \in Sequences(SampleRows, MaxRows)}
        \cup {MissingArtifact, UnreadableArtifact}

\* the characters the raw amounts of the amount parser's check are made of
AmountChars == {"1", ",", " ", ".", "n", "a"}

RECURSIVE Strings(_, _)
Strings(chars, n) ==
    IF n = 0 THEN {""}
    ELSE Strings(chars, n - 1)
            \cup {t \o c : t \in {u \in Strings(chars, n - 1) : Len(u) = n - 1}, c \in chars}

\* artifacts of one row, a row the resolver maps, with every raw amount
AmountArtifacts ==
    {Artifact("IMF Financial Data\n\n\n\n\n\n\nMember\tCode\n",
              <<Row("France", "FRA", "New Arrangement to Borrow", a)>>) :
        a \in Strings(AmountChars, MaxAmountLen)}
        \cup {MissingArtifact, UnreadableArtifact}

\* the lines the headers of the date extractor's runs are made of
DateLines == {
    "As of: September 5, 2024",
    "as of  :  June 30 2025",
    "Data as of March 1, 2021",
    "As of: February 30, 2024",
    "As of: n/a",
    "effective October 12, 2023",
    "As of: May 4, 0987",
    "signed July 7, 0023",
    "Borrowing Arrangements" }

RECURSIVE Lines(_)
Lines(lines) == IF lines = <<>> THEN "" ELSE Head(lines) \o "\n" \o Lines(Tail(lines))

\* a header of eight lines: the lines given, then empty ones
HeaderOf(lines) == Lines(lines \o [j \in 1..(8 - Len(lines)) |-> ""])

\* artifacts of one data row, with every header of up to MaxDateLines of the lines
DateArtifacts ==
    {Artifact(HeaderOf(lines),
              <<Row("France", "FRA", "New Arrangement to Borrow", "500,000")>>) :
        lines \in Sequences(DateLines, MaxDateLines)}
        \cup {MissingArtifact, UnreadableArtifact}

\* the months of the clock when the mapper runs a second time
RerunClock == {"2026-11", "2026-12"}

\* the artifacts the mapper is run twice on: one row at most, a header with a
\* date, one without, one with a date that is no day of the calendar
RerunArtifacts ==
    {Artifact(h, rows) :
        h \in SampleHeaders \cup {HeaderOf(<<"As of: February 30, 2024">>)},
        rows \in Sequences(SampleRows, 1)}
        \cup {MissingArtifact, UnreadableArtifact}

RowText(fields) ==
    fields.member \o "\t" \o fields.code \o "\t" \o fields.facility \o "\t" \o fields.amount \o "\n"

RECURSIVE RowsText(_)
RowsText(rows) == IF rows = <<>> THEN "" ELSE RowText(Head(rows)) \o RowsText(Tail(rows))

\* lines 74-75: the text of the artifact
Content(artifact) == artifact.header \o RowsText(artifact.rows)

(***************************************************************************)
(* The run of main(), lines 129-413                                        *)
(***************************************************************************)
VARIABLES
    source,         \* the artifact downloads/BORROWINGS.xls
    now,            \* datetime.now() as "YYYY-MM"
    platform,       \* the C library under strftime, one of PLATFORMS
    pc,             \* where main() is: "idle" (not started), "start", "mapping", "done"
    status,         \* how main() ended: "", "no_source", "saved", "error", "timeout"
    report_date,
    filtered_df,
    header_row_1,
    header_row_2,
    data_row,
    pos,            \* the row of filtered_df the loop is at
    output,         \* the sheet output/NABIMFD_OUTPUT.xlsx, NoSheet when there is none
    previous,       \* the run of main() before this one on the same artifact, NoRun if none
    phase,          \* where run_pipeline() is, "none" when main() runs on its own
    steps,          \* the steps run_pipeline() has taken, each with what it returned
    success,        \* what generate_summary() returned
    exit_status,    \* the exit status of the pipeline process, -1 while it runs
    output_file,    \* whether the file nabimfd_summary.xlsx exists
    elapsed,        \* the minutes the subprocess of the current phase has run
    spawned,        \* the scripts run_pipeline() has started as subprocesses
    fpc,            \* where main.py is: "idle", "setup_driver", a step of the
                    \* workflow, "finally", "returned", "exited", "timeout"
    driver,         \* the browser of main.py: "none", "open", "quit"
    attempts,       \* the selectors and strategies main.py has tried, in order
    automation      \* what run_complete_automation() returned, "" while it has not

\* the state of the orchestrator
orchestrator == <<phase, steps, success, exit_status, output_file, elapsed, spawned>>

\* the state of main.py
fetcher == <<fpc, driver, attempts, automation>>

vars == <<source, now, platform, pc, status, report_date, filtered_df, header_row_1,
          header_row_2, data_row, pos, output, previous, orchestrator, fetcher>>

NoRun == [status |-> "", now |-> "", output |-> NoSheet]

\* the state main() starts in, the artifact being one of artifacts
Start(artifacts, platforms) ==
    /\ source \in artifacts
    /\ now \in SampleClock
    /\ platform \in platforms
    /\ pc = "start"
    /\ status = ""
    /\ report_date = ""
    /\ filtered_df = <<>>
    /\ header_row_1 = <<>>
    /\ header_row_2 = <<>>
    /\ data_row = <<>>
    /\ pos = 1
    /\ output = NoSheet
    /\ previous = NoRun
    /\ phase = "none"
    /\ steps = <<>>
    /\ success = FALSE
    /\ exit_status = -1
    /\ output_file = FALSE
    /\ elapsed = 0
    /\ spawned = <<>>
    /\ fpc = "idle"
    /\ driver = "none"
    /\ attempts = <<>>
    /\ automation = ""

Init == Start(Artifacts, {"glibc"})

\* the runs on the artifacts of one row that carry every raw amount
InitAmount == Start(AmountArtifacts, {"glibc"})

\* lines 131-135
SourceMissing ==
    /\ pc = "start" /\ ~source.exists
    /\ pc' = "done" /\ status' = "no_source"
    /\ UNCHANGED <<source, now, platform, report_date, filtered_df,
                   header_row_1, header_row_2, data_row, pos, output, previous,
                   orchestrator, fetcher>>

\* lines 137-223: the date, the data frame, the header rows and the empty data row
Load ==
    /\ pc = "start" /\ source.exists /\ source.readable
    /\ report_date' = extract_date_from_tsv_file(TRUE, Content(source), now, platform)
    /\ filtered_df' = Filtered(Cleaned(read_csv(source.rows)))
    /\ header_row_1' = STANDARD_COLUMN_ORDER
    /\ header_row_2' = HeaderRow2
    /\ data_row' = InitialDataRow(report_date')
    /\ pos' = 1
    /\ pc' = "mapping"
    /\ UNCHANGED <<source, now, platform, status, output, previous,
                   orchestrator, fetcher>>

\* lines 139, 147, 410-413: the date defaults to the clock, read_csv raises
LoadFails ==
    /\ pc = "start" /\ source.exists /\ ~source.readable
    /\ report_date' = extract_date_from_tsv_file(FALSE, "", now, platform)
    /\ pc' = "done" /\ status' = "error"
    /\ UNCHANGED <<source, now, platform, filtered_df, header_row_1,
                   header_row_2, data_row, pos, output, previous, orchestrator, fetcher>>

\* lines 226-356: one turn of the loop over filtered_df
MapRecord ==
    /\ pc = "mapping" /\ pos <= Len(filtered_df)
    /\ data_row' = MapRow(data_row, filtered_df[pos])
    /\ pos' = pos + 1
    /\ UNCHANGED <<source, now, platform, pc, status, report_date, filtered_df,
                   header_row_1, header_row_2, output, previous, orchestrator, fetcher>>

\* lines 358-408: the table is written
Save ==
    /\ pc = "mapping" /\ pos > Len(filtered_df)
    /\ output' = Sheet(header_row_1, header_row_2, data_row)
    /\ pc' = "done"
    /\ status' = IF output'.complete THEN "saved" ELSE "error"
    /\ UNCHANGED <<source, now, platform, report_date, filtered_df,
                   header_row_1, header_row_2, data_row, pos, previous,
                   orchestrator, fetcher>>

\* lines 363-368, 410-413: the directory or the file cannot be written
SaveFails ==
    /\ pc = "mapping" /\ pos > Len(filtered_df)
    /\ pc' = "done" /\ status' = "error"
    /\ UNCHANGED <<source, now, platform, report_date, filtered_df,
                   header_row_1, header_row_2, data_row, pos, output, previous,
                   orchestrator, fetcher>>

Next == SourceMissing \/ Load \/ LoadFails \/ MapRecord \/ Save \/ SaveFails

Spec == Init /\ [][Next]_vars

SpecAmount == InitAmount /\ [][Next]_vars

\* the runs on the artifacts that carry the headers of the date extractor, under
\* either C library
InitDate == Start(DateArtifacts, PLATFORMS)

SpecDate == InitDate /\ [][Next]_vars

\* lines 415-416: the script is run once more on the artifact, which has not
\* changed; the clock may have moved to the next month, the sheet of the first
\* run is still on disk
Rerun ==
    /\ pc = "done" /\ phase = "none" /\ previous = NoRun
    /\ previous' = [status |-> status, now |-> now, output |-> output]
    /\ now' \in RerunClock
    /\ pc' = "start"
    /\ status' = ""
    /\ report_date' = ""
    /\ filtered_df' = <<>>
    /\ header_row_1' = <<>>
    /\ header_row_2' = <<>>
    /\ data_row' = <<>>
    /\ pos' = 1
    /\ UNCHANGED <<source, platform, output, orchestrator, fetcher>>

NextRerun == Next \/ Rerun

InitRerun == Start(RerunArtifacts, {"glibc"})

SpecRerun == InitRerun /\ [][NextRerun]_vars

(***************************************************************************)
(* The fetcher, main.py: the constructor, run_complete_automation() and    *)
(* the block under __main__                                                *)
(***************************************************************************)
\* what the fetcher can leave as downloads/BORROWINGS.xls (MissingArtifact: nothing),
\* and what can be there before the pipeline starts
PipelineArtifacts ==
    {MissingArtifact, UnreadableArtifact,
     Artifact("IMF Financial Data\nAs of: June 30, 2025\n\n\n\n\n\nMember\tCode\n",
              <<Row("France", "FRA", "New Arrangement to Borrow", "500,000")>>),
     Artifact("Borrowing Arrangements\n\n\n\n\n\n\nMember\tCode\n",
              <<Row("Stand-By Co.", "", "", "750"),
                Row("Japan", "JPN", "New Arrangement to Borrow", "1,200")>>)}

\* the state of map.py, which the fetcher and the orchestrator leave alone
mapper == <<now, platform, pc, status, report_date, filtered_df, header_row_1,
            header_row_2, data_row, pos, output, previous>>

\* lines 436-459 with 244-258: the steps of the workflow in the order they are
\* taken; select_commitments_borrowings() is its own radio button, then the
\* Borrowings radio button (line 254), then the checkboxes (line 258)
WORKFLOW == <<"navigate_to_site", "select_all_members", "select_commitments_borrowings",
              "select_borrowings_radio", "select_all_borrowings",
              "select_current_option", "submit_query", "download_excel_file">>

\* lines 228-236, 287-296, 353-361: the steps whose handler tries a second selector
FALLBACKS == {"select_all_members", "select_borrowings_radio", "select_current_option"}

Attempt(step, strategy, ok) == [step |-> step, strategy |-> strategy, ok |-> ok]

\* what a step tries: its selector, and when that raises the second selector
\* if its handler has one
Tried(step, primary, fallback) ==
    IF primary \/ step \notin FALLBACKS
    THEN <<Attempt(step, "primary", primary)>>
    ELSE <<Attempt(step, "primary", FALSE), Attempt(step, "fallback", fallback)>>

\* what the step returns
Reports(tried) == tried[Len(tried)].ok

\* the workflow goes on after a step that returned False as well
NextStepRegardless(ok, step) ==
    IF step = WORKFLOW[Len(WORKFLOW)] THEN "finally" ELSE WORKFLOW[ListIndex(WORKFLOW, step) + 1]

\* lines 437-459, 254-258: "return False" after a step that returned False
NextStep(ok, step) ==
    IF ~ok \/ step = WORKFLOW[Len(WORKFLOW)]
    THEN "finally"
    ELSE WORKFLOW[ListIndex(WORKFLOW, step) + 1]

\* lines 438-470: the value run_complete_automation() is about to return
Returns(ok, next) ==
    IF next # "finally" THEN "" ELSE IF ok THEN "success" ELSE "failure"

\* main.py lines 488-508: every exception is handled and the script ends
\* after the handlers: the exit status of main.py
main_returncode == 0

\* lines 129-197, 494, 506-508: the browser is started, or the constructor
\* raises and the handler of line 506 ends the script
SetupDriver ==
    /\ fpc = "setup_driver"
    /\ \E started \in BOOLEAN :
          /\ driver' = IF started THEN "open" ELSE "none"
          /\ fpc' = IF started THEN WORKFLOW[1] ELSE "exited"
    /\ UNCHANGED <<source, mapper, orchestrator, attempts, automation>>

\* a step of the workflow that clicks one element
UIStep(step) ==
    /\ fpc = step
    /\ \E primary \in BOOLEAN, fallback \in BOOLEAN :
          LET tried == Tried(step, primary, fallback)
          IN /\ attempts' = attempts \o tried
             /\ fpc' = NextStep(Reports(tried), step)
             /\ automation' = Returns(Reports(tried), fpc')
    /\ UNCHANGED <<source, mapper, orchestrator, driver>>

\* lines 199-210
NavigateToSite == UIStep("navigate_to_site")

\* lines 212-236
SelectAllMembers == UIStep("select_all_members")

\* lines 238-251, 260-262
SelectCommitmentsBorrowings == UIStep("select_commitments_borrowings")

\* lines 264-296
SelectBorrowingsRadio == UIStep("select_borrowings_radio")

\* lines 298-329: each of the three checkboxes is selected or skipped with a
\* warning, the step returns selected_count > 0
SelectAllBorrowings ==
    /\ fpc = "select_all_borrowings"
    /\ \E selected_count \in 0..3 :
          LET tried == <<Attempt("select_all_borrowings", "primary", selected_count > 0)>>
          IN /\ attempts' = attempts \o tried
             /\ fpc' = NextStep(Reports(tried), "select_all_borrowings")
             /\ automation' = Returns(Reports(tried), fpc')
    /\ UNCHANGED <<source, mapper, orchestrator, driver>>

\* lines 331-361
SelectCurrentOption == UIStep("select_current_option")

\* lines 363-392
SubmitQuery == UIStep("submit_query")

\* the file the pipeline finds in the downloads directory after a download:
\* nothing arrived, or the browser saved the file beside the one that was there
Arrived(present, downloaded) ==
    IF ~downloaded.exists THEN {present}
    ELSE IF present.exists THEN {present, downloaded}
    ELSE {downloaded}

\* lines 400-428: the path of the latest file, True when no file is found,
\* False when the link could not be clicked
DownloadReturns(clicked, found) ==
    IF ~clicked THEN "False" ELSE IF found THEN "latest_file" ELSE "True"

\* line 458: "if not downloaded_file"
Truthy(value) == value # "False"

\* lines 394-428, 457-470
DownloadExcelFile ==
    /\ fpc = "download_excel_file"
    /\ \E clicked \in BOOLEAN, downloaded \in PipelineArtifacts :
          /\ source' \in (IF clicked THEN Arrived(source, downloaded) ELSE {source})
          /\ LET ok == Truthy(DownloadReturns(clicked, source'.exists))
                 tried == <<Attempt("download_excel_file", "primary", ok)>>
             IN /\ attempts' = attempts \o tried
                /\ fpc' = NextStep(ok, "download_excel_file")
                /\ automation' = Returns(ok, fpc')
    /\ UNCHANGED <<mapper, orchestrator, driver>>

\* lines 472-474: an exception raised outside the handlers of the steps
AutomationRaises ==
    /\ InList(fpc, WORKFLOW)
    /\ fpc' = "finally"
    /\ automation' = "failure"
    /\ UNCHANGED <<source, mapper, orchestrator, driver, attempts>>

\* the browser is left as it is
DriverLeftOpen(browser) == browser

\* lines 480-485: "if self.driver: self.driver.quit()"
DriverAfterFinally(browser) == IF browser = "none" THEN browser ELSE "quit"

\* lines 475-485: the finally clause, after which the method returns
Finally ==
    /\ fpc = "finally"
    /\ driver' = DriverAfterFinally(driver)
    /\ fpc' = "returned"
    /\ UNCHANGED <<source, mapper, orchestrator, attempts, automation>>

\* lines 495-501: the result is printed and the script ends
MainEnds ==
    /\ fpc = "returned"
    /\ fpc' = "exited"
    /\ UNCHANGED <<source, mapper, orchestrator, driver, attempts, automation>>

\* main.py is run on its own: the downloads directory is as earlier runs left it
InitFetcher ==
    /\ source \in PipelineArtifacts
    /\ now \in SampleClock
    /\ platform = "glibc"
    /\ pc = "idle"
    /\ status = ""
    /\ report_date = ""
    /\ filtered_df = <<>>
    /\ header_row_1 = <<>>
    /\ header_row_2 = <<>>
    /\ data_row = <<>>
    /\ pos = 1
    /\ output = NoSheet
    /\ previous = NoRun
    /\ phase = "none"
    /\ steps = <<>>
    /\ success = FALSE
    /\ exit_status = -1
    /\ output_file = FALSE
    /\ elapsed = 0
    /\ spawned = <<>>
    /\ fpc = "setup_driver"
    /\ driver = "none"
    /\ attempts = <<>>
    /\ automation = ""

NextFetcher ==
    \/ SetupDriver \/ NavigateToSite \/ SelectAllMembers \/ SelectCommitmentsBorrowings
    \/ SelectBorrowingsRadio \/ SelectAllBorrowings \/ SelectCurrentOption
    \/ SubmitQuery \/ DownloadExcelFile \/ AutomationRaises \/ Finally \/ MainEnds

SpecFetcher == InitFetcher /\ [][NextFetcher]_vars

(***************************************************************************)
(* The pipeline, orchestrator.py: run_pipeline() and main(), with main.py  *)
(* and map.py as the subprocesses of its two phases                        *)
(***************************************************************************)
\* lines 257-277: the steps of run_pipeline() in their order
STEPS == <<"check_requirements", "run_data_extraction", "run_data_processing",
           "generate_summary", "cleanup_old_files">>

Step(name, ok) == [name |-> name, ok |-> ok]

\* the step after one that returned False as well
AfterStepRegardless(ok, next) == next

\* lines 258-270: a step that returned False makes run_pipeline() return False
AfterStep(ok, next) == IF ok THEN next ELSE "return"

\* map.py lines 410-416: main() returns on every path, the handler of line 410
\* included, and the script ends there: the exit status of map.py
map_returncode == 0

\* line 92: subprocess.run(..., timeout=300), in seconds
EXTRACTION_TIMEOUT == 300

\* line 158: subprocess.run(..., timeout=120), in seconds
PROCESSING_TIMEOUT == 120

\* the minutes a subprocess is followed for
MaxElapsed == 6

\* subprocess.run() without a timeout
NeverTimedOut(minutes, timeout) == FALSE

\* lines 92, 138, 158, 188: TimeoutExpired is raised once the subprocess has
\* run for timeout seconds
TimedOut(minutes, timeout) == minutes * 60 >= timeout

\* the subprocess of the phase has been started and has neither ended nor been killed
ExtractionRuns == phase = "run_data_extraction" /\ fpc \notin {"idle", "exited", "timeout"}

ProcessingRuns == phase = "run_data_processing" /\ pc \in {"start", "mapping"}

\* a minute passes while subprocess.run() waits
Tick ==
    /\ \/ ExtractionRuns /\ ~TimedOut(elapsed, EXTRACTION_TIMEOUT)
       \/ ProcessingRuns /\ ~TimedOut(elapsed, PROCESSING_TIMEOUT)
    /\ elapsed < MaxElapsed
    /\ elapsed' = elapsed + 1
    /\ UNCHANGED <<source, mapper, fetcher, phase, steps, success, exit_status,
                   output_file, spawned>>

\* lines 43-77, 258-260
CheckRequirements ==
    /\ phase = "check_requirements"
    /\ \E ok \in BOOLEAN :
          /\ steps' = Append(steps, Step("check_requirements", ok))
          /\ phase' = AfterStep(ok, "run_data_extraction")
    /\ UNCHANGED <<source, mapper, fetcher, success, exit_status, output_file,
                   elapsed, spawned>>

\* lines 85-93: main.py is started as a subprocess
StartExtraction ==
    /\ phase = "run_data_extraction" /\ fpc = "idle"
    /\ fpc' = "setup_driver"
    /\ spawned' = Append(spawned, "main.py")
    /\ elapsed' = 0
    /\ UNCHANGED <<source, mapper, phase, steps, success, exit_status, output_file,
                   driver, attempts, automation>>

\* lines 138-140, 263-265: main.py is not done after 300 seconds and is killed
ExtractionTimeout ==
    /\ ExtractionRuns /\ TimedOut(elapsed, EXTRACTION_TIMEOUT)
    /\ fpc' = "timeout"
    /\ steps' = Append(steps, Step("run_data_extraction", FALSE))
    /\ phase' = AfterStep(FALSE, "run_data_processing")
    /\ UNCHANGED <<source, mapper, success, exit_status, output_file, elapsed,
                   spawned, driver, attempts, automation>>

\* lines 106-136, 263-265: main.py has ended; its return code and the files of
\* the downloads directory decide what run_data_extraction() returns
FinishExtraction ==
    /\ phase = "run_data_extraction" /\ fpc = "exited"
    /\ LET ok == main_returncode = 0 /\ source.exists
       IN /\ steps' = Append(steps, Step("run_data_extraction", ok))
          /\ phase' = AfterStep(ok, "run_data_processing")
    /\ UNCHANGED <<source, mapper, fetcher, success, exit_status, output_file,
                   elapsed, spawned>>

\* lines 153-159: map.py is started as a subprocess
StartProcessing ==
    /\ phase = "run_data_processing" /\ pc = "idle"
    /\ pc' = "start"
    /\ spawned' = Append(spawned, "map.py")
    /\ elapsed' = 0
    /\ UNCHANGED <<source, now, platform, status, report_date, filtered_df,
                   header_row_1, header_row_2, data_row, pos, output, previous,
                   phase, steps, success, exit_status, output_file, fetcher>>

\* lines 188-190, 268-270: map.py is not done after 120 seconds and is killed
ProcessingTimeout ==
    /\ ProcessingRuns /\ TimedOut(elapsed, PROCESSING_TIMEOUT)
    /\ pc' = "done" /\ status' = "timeout"
    /\ steps' = Append(steps, Step("run_data_processing", FALSE))
    /\ phase' = AfterStep(FALSE, "generate_summary")
    /\ UNCHANGED <<source, now, platform, report_date, filtered_df, header_row_1,
                   header_row_2, data_row, pos, output, previous, success,
                   exit_status, output_file, elapsed, spawned, fetcher>>

\* lines 172-186, 268-270: map.py has ended; its return code and the file
\* nabimfd_summary.xlsx decide what run_data_processing() returns
FinishProcessing ==
    /\ phase = "run_data_processing" /\ pc = "done"
    /\ LET ok == map_returncode = 0 /\ output_file
       IN /\ steps' = Append(steps, Step("run_data_processing", ok))
          /\ phase' = AfterStep(ok, "generate_summary")
    /\ UNCHANGED <<source, mapper, fetcher, success, exit_status, output_file,
                   elapsed, spawned>>

\* lines 216-247, 273
GenerateSummary ==
    /\ phase = "generate_summary"
    /\ success' = (source.exists /\ output_file)
    /\ steps' = Append(steps, Step("generate_summary", success'))
    /\ phase' = "cleanup_old_files"
    /\ UNCHANGED <<source, mapper, fetcher, exit_status, output_file, elapsed, spawned>>

\* lines 195-214, 276-283: old log files are removed, a failure is only logged
CleanupOldFiles ==
    /\ phase = "cleanup_old_files"
    /\ steps' = Append(steps, Step("cleanup_old_files", TRUE))
    /\ phase' = "return"
    /\ UNCHANGED <<source, mapper, fetcher, success, exit_status, output_file,
                   elapsed, spawned>>

\* lines 296-308: main() returns 0 if run_pipeline() returned True, 1 otherwise
Exit ==
    /\ phase = "return"
    /\ exit_status' = IF success THEN 0 ELSE 1
    /\ phase' = "exited"
    /\ UNCHANGED <<source, mapper, fetcher, steps, success, output_file, elapsed, spawned>>

\* the pipeline starts: neither script has been started, the downloads
\* directory and the file nabimfd_summary.xlsx are as earlier runs left them
InitPipeline ==
    /\ source \in PipelineArtifacts
    /\ now \in SampleClock
    /\ platform = "glibc"
    /\ pc = "idle"
    /\ status = ""
    /\ report_date = ""
    /\ filtered_df = <<>>
    /\ header_row_1 = <<>>
    /\ header_row_2 = <<>>
    /\ data_row = <<>>
    /\ pos = 1
    /\ output = NoSheet
    /\ previous = NoRun
    /\ phase = "check_requirements"
    /\ steps = <<>>
    /\ success = FALSE
    /\ exit_status = -1
    /\ output_file \in BOOLEAN
    /\ elapsed = 0
    /\ spawned = <<>>
    /\ fpc = "idle"
    /\ driver = "none"
    /\ attempts = <<>>
    /\ automation = ""

\* the source file exists when map.py is started (line 110), so that of the
\* steps of map.py SourceMissing has no part in the pipeline
NextPipeline ==
    \/ CheckRequirements \/ StartExtraction \/ NextFetcher \/ ExtractionTimeout
    \/ FinishExtraction \/ StartProcessing
    \/ Load \/ LoadFails \/ MapRecord \/ Save \/ SaveFails
    \/ ProcessingTimeout \/ FinishProcessing \/ Tick
    \/ GenerateSummary \/ CleanupOldFiles \/ Exit

SpecPipeline == InitPipeline /\ [][NextPipeline]_vars

(***************************************************************************)
(* Vocabulary of the properties                                            *)
(***************************************************************************)
Columns == 2..Len(STANDARD_COLUMN_ORDER)

ColumnOf(code) == ListIndex(STANDARD_COLUMN_ORDER, code)

OutputCode(iso) == "NABIMFD." \o iso \o ".M"

\* the rows of filtered_df the loop has been through
Processed == IF pc = "start" THEN {} ELSE 1..(pos - 1)

\* the loop is about to take the row filtered_df[pos]
AtRecord == pc = "mapping" /\ pos <= Len(filtered_df)

\* the columns of row 3 a tier (or the whole resolver) fills for a row, found by
\* letting it work on an empty data row
BlankRow == [c \in 1..Len(STANDARD_COLUMN_ORDER) |-> None]
Filled(result) == {c \in Columns : result.data_row[c] # None}
CodeTierColumns(row) == Filled(CodeTier(BlankRow, member_code_of(row), amount_of(row)))
ExactTierColumns(row) == Filled(ExactTier(BlankRow, member_name_of(row), amount_of(row)))
SimpleTierColumns(row) == Filled(SimpleTier(BlankRow, member_name_of(row), amount_of(row)))
ResolvedColumns(row) ==
    Filled(Resolve(BlankRow, member_name_of(row), member_code_of(row), amount_of(row)))

\* the data row with amount in the columns cols
WithAmount(row3, cols, amount) ==
    [c \in 1..Len(row3) |-> IF c \in cols THEN amount ELSE row3[c]]

(***************************************************************************)
(* C1. Code tier: a record whose member code, in upper case, is one of the *)
(* three-letter codes of the fixed set resolves to NABIMFD.<code>.M, what- *)
(* ever its member name: the loop turn that takes the record puts its      *)
(* amount in that column.                                                  *)
(***************************************************************************)
C1_CodeTierResolvesEveryCode ==
    [][(/\ AtRecord
        /\ amount_of(filtered_df[pos]) # None
        /\ InList(upper(member_code_of(filtered_df[pos])), THREE_LETTER_CODES))
       => data_row'[ColumnOf(OutputCode(upper(member_code_of(filtered_df[pos]))))]
             = amount_of(filtered_df[pos])]_vars

(***************************************************************************)
(* C2. Precedence: a loop turn fills the column of the first tier (code,   *)
(* exact alias, simple name) that matches the record and no other cell, so *)
(* at most one cell; a code match wins over a name that a later tier would *)
(* give to another country.                                                *)
(***************************************************************************)
FirstTierColumns(row) ==
    IF CodeTierColumns(row) # {} THEN CodeTierColumns(row)
    ELSE IF ExactTierColumns(row) # {} THEN ExactTierColumns(row)
    ELSE SimpleTierColumns(row)

C2_FirstTierDecides ==
    [][(AtRecord /\ amount_of(filtered_df[pos]) # None)
       => /\ Cardinality(FirstTierColumns(filtered_df[pos])) <= 1
          /\ data_row' = WithAmount(data_row, FirstTierColumns(filtered_df[pos]),
                                    amount_of(filtered_df[pos]))]_vars

\* a record whose code and name point at two countries went to the code's column
C2_Witness ==
    /\ pc = "mapping" /\ pos = 2
    /\ amount_of(filtered_df[1]) # None
    /\ CodeTierColumns(filtered_df[1]) # {}
    /\ ExactTierColumns(filtered_df[1]) # {}
    /\ CodeTierColumns(filtered_df[1]) \cap ExactTierColumns(filtered_df[1]) = {}
    /\ \A c \in CodeTierColumns(filtered_df[1]) : data_row[c] = amount_of(filtered_df[1])
    /\ \A c \in ExactTierColumns(filtered_df[1]) : data_row[c] = None

(***************************************************************************)
(* C3. Alias tier: when the code tier does not match, a member name that   *)
(* equals a listed variant up to case, or contains one, resolves to the    *)
(* country of that variant; of several such countries the one declared     *)
(* first in the alias table wins.                                          *)
(***************************************************************************)
AliasCountries(member_name) ==
    {k \in 1..Len(exact_matches) :
        \E v \in 1..Len(exact_matches[k][2]) :
            \/ lower(exact_matches[k][2][v]) = lower(member_name)
            \/ contains(member_name, exact_matches[k][2][v])}

FirstAliasColumn(member_name) ==
    ColumnOf(DictGet(COUNTRY_CODES, exact_matches[Min(AliasCountries(member_name))][1]))

RawAmount(fields) == amount_of(ReadRow(fields))

Contributes(fields) ==
    strip(fields.facility) = "New Arrangement to Borrow" /\ RawAmount(fields) # None

C4_OnlyFilteredRowsContribute ==
    \A c \in Columns \cap DOMAIN data_row :
        data_row[c] # None
            => \E k \in 1..Len(source.rows) :
                  Contributes(source.rows[k]) /\ data_row[c] = RawAmount(source.rows[k])

\* a row whose facility has trailing blanks filled a cell of the written sheet,
\* a row of another facility with an amount that parses filled none
C4_Witness ==
    /\ pc = "done" /\ status = "saved"
    /\ \E k \in 1..Len(source.rows) :
          /\ source.rows[k].facility = "New Arrangement to Borrow  "
          /\ \E c \in Columns : output.rows[3][c] = RawAmount(source.rows[k])
    /\ \E k \in 1..Len(source.rows) :
          /\ source.rows[k].facility = "Stand-By Arrangement"
          /\ RawAmount(source.rows[k]) # None
          /\ \A c \in Columns : output.rows[3][c] # RawAmount(source.rows[k])

(***************************************************************************)
(* C5. An unmapped record is a loss, not a failure: the loop turn that     *)
(* takes a record no tier matches changes no cell of row 3 and the run     *)
(* goes on to the next record, and on to building and writing the table.   *)
(***************************************************************************)
Unmapped(row) ==
    /\ amount_of(row) # None
    /\ CodeTierColumns(row) = {}
    /\ ExactTierColumns(row) = {}
    /\ SimpleTierColumns(row) = {}

C5_UnmappedRecordIsDropped ==
    [][(AtRecord /\ Unmapped(filtered_df[pos]))
       => /\ data_row' = data_row
          /\ pc' = "mapping" /\ status' = status /\ pos' = pos + 1]_vars

\* the sheet was written with the amount of a mapped record, an unmapped record
\* having gone through the loop before it
C5_Witness ==
    /\ pc = "done" /\ status = "saved" /\ Len(filtered_df) = 2
    /\ member_name_of(filtered_df[1]) = "Atlantis"
    /\ Unmapped(filtered_df[1])
    /\ ResolvedColumns(filtered_df[2]) # {}
    /\ \A c \in Columns :
          output.rows[3][c] = IF c \in ResolvedColumns(filtered_df[2])
                              THEN amount_of(filtered_df[2]) ELSE None

(***************************************************************************)
(* C6. Amount parser, on the runs whose one row carries every raw amount.  *)
(* As claimed: the commas and the surrounding blanks are stripped and the  *)
(* rest is parsed as a number; the empty string, the missing token and     *)
(* every string that is not a number give None. As the code has it: the    *)
(* commas and every blank, the inner ones too, are removed and the rest is *)
(* parsed by float(); the empty string, the token "nan" and every string   *)
(* float() rejects give None, the record fills no cell and the run goes on.*)
(***************************************************************************)
RECURSIVE Without(_, _)
Without(str, chars) ==
    IF str = "" THEN ""
    ELSE (IF CharAt(str, 1) \in chars THEN "" ELSE CharAt(str, 1))
            \o Without(SubSeq(str, 2, Len(str)), chars)

Unsigned(t) == IF t # "" /\ CharAt(t, 1) \in {"+", "-"} THEN SubSeq(t, 2, Len(t)) ELSE t

\* an optional sign, digits, at most one point, a digit at least
IsDecimalLiteral(t) ==
    LET digits == Without(Unsigned(t), {"."})
    IN /\ Len(Unsigned(t)) - Len(digits) <= 1
       /\ digits # ""
       /\ \A i \in 1..Len(digits) : CharAt(digits, i) \in DigitChars

\* nan, inf, infinity in any case, which float() reads too
IsFloatWord(t) == lower(Unsigned(t)) \in {"nan", "inf", "infinity"}

\* v is the number the decimal literal t writes
IsNumberOf(v, t) ==
    LET digits == Without(Unsigned(t), {"."})
        fraction == IF contains(t, ".") THEN Len(t) - FindChars(t, 1, {"."}) ELSE 0
    IN /\ v.type = "float" /\ v.special = ""
       /\ v.neg = (CharAt(t, 1) = "-")
       /\ v.mant * Pow10(fraction) = IntOf(digits) * Pow10(v.scale)

\* the run has taken its one row; its amount went to the column of France or nowhere
AmountTaken == pc = "mapping" /\ pos = 2 /\ Len(filtered_df) = 1

AmountCell == data_row[ColumnOf("NABIMFD.FRA.M")]

C6_AmountParserAsClaimed ==
    AmountTaken =>
        LET t == strip(Without(filtered_df[1].amount.str, {","}))
        IN IF IsDecimalLiteral(t) THEN IsNumberOf(AmountCell, t) ELSE AmountCell = None

C6_AmountParser ==
    AmountTaken =>
        LET t == Without(filtered_df[1].amount.str, {",", " "})
        IN IF t = "" \/ t = "nan" THEN AmountCell = None
           ELSE IF IsDecimalLiteral(t) THEN IsNumberOf(AmountCell, t)
           ELSE IF IsFloatWord(t) THEN AmountCell.type = "float" /\ AmountCell.special # ""
           ELSE AmountCell = None

\* an amount with a comma and a blank inside it was read as a number
C6_Witness ==
    /\ AmountTaken
    /\ filtered_df[1].amount.str = "1, 1"
    /\ AmountCell = Float("", FALSE, 11, 0)

\* for each row the loop has been through, the columns it resolves to when it
\* carries an amount
Resolutions ==
    [k \in Processed |-> IF amount_of(filtered_df[k]) # None
                         THEN ResolvedColumns(filtered_df[k]) ELSE {}]

\* the rows among them that resolve to column c
Contributors(resolved, c) == {k \in DOMAIN resolved : c \in resolved[k]}

Last(ks) == CHOOSE k \in ks : \A j \in ks : j <= k

(***************************************************************************)
(* C7. Last write wins: when records of one run resolve to the same column,*)
(* the cell of row 3 holds the amount of the one that came last in the     *)
(* order of the file, whichever tiers they resolved through.               *)
(***************************************************************************)
C7_LastWriteWins ==
    LET resolved == Resolutions
    IN \A c \in Columns :
          Contributors(resolved, c) # {} =>
              data_row[c] = amount_of(filtered_df[Last(Contributors(resolved, c))])

\* two records with different amounts reached the column of France, the first
\* through its code, the second through its name
C7_Witness ==
    /\ pc = "mapping" /\ pos = 3
    /\ LET c == ColumnOf("NABIMFD.FRA.M")
       IN /\ Contributors(Resolutions, c) = {1, 2}
          /\ c \in CodeTierColumns(filtered_df[1])
          /\ CodeTierColumns(filtered_df[2]) = {}
          /\ c \in SimpleTierColumns(filtered_df[2])
          /\ amount_of(filtered_df[1]) # amount_of(filtered_df[2])
          /\ data_row[c] = amount_of(filtered_df[2])

(***************************************************************************)
(* C8. Row 3: after any number of records, a column of row 3 past the first*)
(* holds a value if and only if a record with an amount resolved to it,    *)
(* one number and no more; every other column is None, never zero, in the  *)
(* data row and in the sheet written from it.                              *)
(***************************************************************************)
C8_RowThreeInvariant ==
    LET resolved == Resolutions
    IN /\ Len(data_row) > 0 =>
             \A c \in Columns :
                 IF Contributors(resolved, c) # {}
                 THEN data_row[c].type = "float"
                 ELSE data_row[c] = None
       /\ status = "saved" =>
             \A c \in Columns :
                 IF Contributors(resolved, c) # {}
                 THEN output.rows[3][c].type = "float"
                 ELSE output.rows[3][c] = None

\* a sheet was written from two records: two columns hold a number, the others
\* are empty
C8_Witness ==
    /\ status = "saved"
    /\ Len(filtered_df) = 2
    /\ Cardinality({c \in Columns : output.rows[3][c] # None}) = 2
    /\ \E c \in Columns : output.rows[3][c] = None

(***************************************************************************)
(* C9. Shape of the table: three rows, each as long as the column order;   *)
(* row 1 is the column order, an empty first entry and then every code of  *)
(* the registry once; row 2 has an empty first cell and, under each code,  *)
(* the label of a country of the registry that owns the code; row 3 starts *)
(* with the report date taken from the artifact.                           *)
(***************************************************************************)
LabelPrefix == "New Arrangement to Borrow IMF Data: "

Owners(code) ==
    {COUNTRY_CODES[k][1] : k \in {j \in 1..Len(COUNTRY_CODES) : COUNTRY_CODES[j][2] = code}}

C9_TableShape ==
    status = "saved" =>
        LET rows == output.rows
        IN /\ Len(rows) = 3
           /\ \A r \in 1..3 : Len(rows[r]) = Len(STANDARD_COLUMN_ORDER)
           /\ rows[1] = STANDARD_COLUMN_ORDER
           /\ rows[1][1] = ""
           /\ \A c \in Columns : Owners(rows[1][c]) # {}
           /\ \A k \in 1..Len(COUNTRY_CODES) :
                 Cardinality({c \in Columns : rows[1][c] = COUNTRY_CODES[k][2]}) = 1
           /\ rows[2][1] = ""
           /\ \A c \in Columns :
                 \E country \in Owners(rows[1][c]) : rows[2][c] = LabelPrefix \o country
           /\ rows[3][1] = report_date

\* a sheet was written for an artifact dated June 30, 2025
C9_Witness ==
    /\ status = "saved"
    /\ contains(source.header, "June 30, 2025")
    /\ output.rows[3][1] = "2025-06"
    /\ output.rows[2][ColumnOf("NABIMFD.FRA.M")] = LabelPrefix \o "France"

(***************************************************************************)
(* C10. Registry. As claimed: no two country names of the registry have    *)
(* the same code. As the code has it: 'Russian Federation' and 'Russia'    *)
(* both have NABIMFD.RUS.M, every other code has one name; the column of   *)
(* NABIMFD.RUS.M is labelled with 'Russia', the later of the two, every    *)
(* other column with the one name of its code. No statement of the program *)
(* assigns to the registry, which is why it is a definition and not a      *)
(* variable here.                                                          *)
(***************************************************************************)
C10_CodesUnique ==
    Len(header_row_2) > 0 =>
        \A j, k \in 1..Len(COUNTRY_CODES) :
            COUNTRY_CODES[j][2] = COUNTRY_CODES[k][2] => j = k

C10_RegistryCodes ==
    Len(header_row_2) > 0 =>
        /\ \A k \in 1..Len(COUNTRY_CODES) : InList(COUNTRY_CODES[k][2], header_row_1)
        /\ \A c \in Columns :
              IF header_row_1[c] = "NABIMFD.RUS.M"
              THEN /\ Owners(header_row_1[c]) = {"Russian Federation", "Russia"}
                   /\ header_row_2[c] = LabelPrefix \o "Russia"
              ELSE /\ Cardinality(Owners(header_row_1[c])) = 1
                   /\ \A country \in Owners(header_row_1[c]) :
                         header_row_2[c] = LabelPrefix \o country

\* a sheet was written whose column NABIMFD.RUS.M is labelled 'Russia'
C10_Witness ==
    /\ status = "saved"
    /\ Cardinality(Owners("NABIMFD.RUS.M")) = 2
    /\ output.rows[2][ColumnOf("NABIMFD.RUS.M")] = LabelPrefix \o "Russia"

(***************************************************************************)
(* Vocabulary of the properties of the date extractor                      *)
(***************************************************************************)
\* the report date has been taken from the text of the artifact
Extracted == pc # "start" /\ source.exists /\ source.readable

\* a long-form date that is a day of the calendar
IsRealDate(date) == date.ok /\ StrptimeOk(date)

\* the year of a date as written, four digits, and its month in two digits
YearMonth(date) == date.year \o "-" \o ZeroPad(Decimal(date.month), 2)

\* the long-form date that follows the marker "As of:", in any case and with any
\* spacing, that starts at p; ls is the text in lower case
MarkerDate(ls, p) ==
    LET q == GroupStart(2, ls, p)
    IN IF q = 0 \/ q > Len(ls) THEN NoDate ELSE DateAt(ls, q)

\* where the real long-form dates of the text start
RealDates(ls) == {d \in 1..Len(ls) : IsRealDate(DateAt(ls, d))}

\* none of the three patterns finds a marker in the text
NoMarker(str, ls) == \A k \in 1..3 : ~AsOfSearch(k, str, ls).found

\* no pattern finds a marker whose text holds a real date
HeaderFails(str, ls) ==
    \A k \in 1..3 :
        LET as_of_match == AsOfSearch(k, str, ls)
        IN ~(as_of_match.found /\ IsRealDate(FirstDate(strip(as_of_match.text))))

IsYearMonth(str) ==
    /\ Len(str) = 7
    /\ \A j \in {1, 2, 3, 4, 6, 7} : CharAt(str, j) \in DigitChars
    /\ CharAt(str, 5) = "-"
    /\ IntOf(SubSeq(str, 6, 7)) \in 1..12

(***************************************************************************)
(* C11. Header path: when a real long-form date follows a marker "As of:"  *)
(* (any case, any spacing) in the content, the report date is the year and *)
(* the month of such a date as "YYYY-MM", whatever other dates the content *)
(* holds.                                                                  *)
(***************************************************************************)
C11_HeaderDateIsReturned ==
    Extracted =>
        LET ls == lower(Content(source))
            ps == {p \in 1..Len(ls) : IsRealDate(MarkerDate(ls, p))}
        IN ps # {} => \E p \in ps : report_date = YearMonth(MarkerDate(ls, p))

(***************************************************************************)
(* C12. Body path: when the content has no marker and holds a long-form    *)
(* date, the report date is the year and the month of the first such date. *)
(***************************************************************************)
C12_FirstBodyDateIsReturned ==
    Extracted =>
        LET ls == lower(Content(source))
        IN NoMarker(Content(source), ls) /\ RealDates(ls) # {} =>
              report_date = YearMonth(DateAt(ls, Min(RealDates(ls))))

(***************************************************************************)
(* C13. Ordered fallback: when no marker is found, or the text after it    *)
(* holds no real date (a text such as "February 30, 2024" included), the   *)
(* report date is that of the first long-form date of the whole content,   *)
(* and the month of the clock only when the content yields none.           *)
(***************************************************************************)
C13_FallbackToBodyDate ==
    Extracted =>
        LET ls == lower(Content(source))
            first == FirstDate(Content(source))
        IN HeaderFails(Content(source), ls) =>
              IF IsRealDate(first) THEN report_date = YearMonth(first)
              ELSE report_date \in
                      {now} \cup {YearMonth(DateAt(ls, d)) : d \in RealDates(ls)}

(***************************************************************************)
(* C14. Default path: with no long-form date in the content, or with a     *)
(* file that cannot be read, the report date is the month of the clock;    *)
(* the report date is a "YYYY-MM" string on every path.                    *)
(***************************************************************************)
C14_DefaultsToClock ==
    pc # "start" /\ source.exists =>
        /\ IsYearMonth(report_date)
        /\ ~source.readable => report_date = now
        /\ source.readable /\ ~FirstDate(Content(source)).ok => report_date = now

(***************************************************************************)
(* C15. End to end: for the artifact whose header holds "As of: June 30,   *)
(* 2025" and whose rows are France / FRA / New Arrangement to Borrow /     *)
(* 500,000 and Stand-By Co. / no code / Stand-By Arrangement / 999, row 3  *)
(* of the sheet has the date "2025-06", 500000 in the column NABIMFD.FRA.M *)
(* and nothing in any other column.                                        *)
(***************************************************************************)
EndToEndRows ==
    <<Row("France", "FRA", "New Arrangement to Borrow", "500,000"),
      Row("Stand-By Co.", "", "Stand-By Arrangement", "999")>>

EndToEndRun ==
    /\ status = "saved"
    /\ contains(source.header, "As of: June 30, 2025")
    /\ source.rows = EndToEndRows

C15_EndToEnd ==
    EndToEndRun =>
        /\ output.rows[3][1] = "2025-06"
        /\ \A c \in Columns :
              output.rows[3][c] =
                  IF c = ColumnOf("NABIMFD.FRA.M") THEN Float("", FALSE, 500000, 0)
                  ELSE None

\* the sheet of that artifact was written, with 500000 under NABIMFD.FRA.M
C15_Witness ==
    /\ EndToEndRun
    /\ output.complete
    /\ output.rows[3][ColumnOf("NABIMFD.FRA.M")] = Float("", FALSE, 500000, 0)

(***************************************************************************)
(* C16. Two runs on one artifact. As claimed: the sheets of the two runs   *)
(* are the same, all three rows, the date cell included. As the code has   *)
(* it: rows 1 and 2 and the amounts of row 3 are the same; the date cell   *)
(* is the same when the content holds a date for the extractor, and is the *)
(* month of the clock of each run when the content holds no long-form date *)
(* or holds one that is no day of the calendar.                            *)
(***************************************************************************)
\* both runs wrote their sheet
RanTwice == previous.status = "saved" /\ status = "saved"

\* the content holds a date for the extractor: the first text of the date
\* pattern after a marker, or without one the first in the content, is a day of
\* the calendar
DateFromContent ==
    LET ls == lower(Content(source))
        text(k) == strip(AsOfSearch(k, Content(source), ls).text)
        ks == {k \in 1..3 : AsOfSearch(k, Content(source), ls).found /\ FirstDate(text(k)).ok}
    IN IF ks # {} THEN IsRealDate(FirstDate(text(Min(ks))))
       ELSE IsRealDate(FirstDate(Content(source)))

C16_SameSheetAsClaimed == RanTwice => output.rows = previous.output.rows

C16_SameSheet ==
    RanTwice =>
        /\ output.rows[1] = previous.output.rows[1]
        /\ output.rows[2] = previous.output.rows[2]
        /\ \A c \in Columns : output.rows[3][c] = previous.output.rows[3][c]
        /\ IF DateFromContent
           THEN output.rows[3][1] = previous.output.rows[3][1]
           ELSE output.rows[3][1] = now /\ previous.output.rows[3][1] = previous.now

\* two runs in different months wrote the same sheet of one record, dated from
\* the content
C16_Witness ==
    /\ RanTwice
    /\ now # previous.now
    /\ Len(filtered_df) = 1
    /\ DateFromContent
    /\ output.rows = previous.output.rows
    /\ output.rows[3][1] = "2025-06"

(***************************************************************************)
(* Vocabulary of the properties of the pipeline                            *)
(***************************************************************************)
\* main() of map.py got as far as writing the sheet and failed there
WriteFailed == pc = "done" /\ status = "error" /\ Len(header_row_1) > 0

\* what the steps taken so far returned, by name
Returned(name) == {steps[i].ok : i \in {j \in 1..Len(steps) : steps[j].name = name}}

(***************************************************************************)
(* C17. A failure to write the sheet is fatal and visible: map.py does not *)
(* end with the status of a success, and the pipeline does not end with    *)
(* the status of a success either.                                         *)
(***************************************************************************)
C17_WriteFailureIsFatal ==
    WriteFailed => map_returncode # 0 /\ exit_status # 0

(***************************************************************************)
(* C18. The processing phase is reported successful exactly when map.py    *)
(* has ended with status zero and the sheet map.py writes is on disk.      *)
(***************************************************************************)
C18_PhaseSuccessSignal ==
    \A ok \in Returned("run_data_processing") :
        ok <=> (status # "timeout" /\ map_returncode = 0 /\ output # NoSheet)

(***************************************************************************)
(* C19. Order of the phases: the steps are taken in the order requirements *)
(* check, extraction, processing, summary, cleanup; the extraction starts  *)
(* only after a requirements check that succeeded, map.py is started only  *)
(* after an extraction that succeeded, and after a check or a phase that   *)
(* failed no later step is taken.                                          *)
(***************************************************************************)
C19_PhaseOrder ==
    /\ Len(steps) <= Len(STEPS)
    /\ \A i \in 1..Len(steps) : steps[i].name = STEPS[i]
    /\ \A i \in 1..Len(steps) : \A j \in 1..(i - 1) : j <= 3 => steps[j].ok
    /\ phase = "run_data_extraction" => Returned("check_requirements") = {TRUE}
    /\ pc # "idle" =>
          /\ Returned("check_requirements") = {TRUE}
          /\ Returned("run_data_extraction") = {TRUE}
    /\ phase \in {"generate_summary", "cleanup_old_files"} =>
          Returned("run_data_processing") = {TRUE}

\* the extraction failed and the pipeline ended without map.py being started
C19_Witness ==
    /\ phase = "exited"
    /\ Len(steps) = 2
    /\ Returned("check_requirements") = {TRUE}
    /\ Returned("run_data_extraction") = {FALSE}
    /\ pc = "idle"

(***************************************************************************)
(* C20. Exit status of the pipeline: after a failure (a check or a phase   *)
(* that failed, a timeout, a source artifact or an output artifact that is *)
(* missing) the process ends with a status other than zero; it ends with   *)
(* zero only if both phases succeeded and the source artifact and the      *)
(* sheet of map.py exist.                                                  *)
(***************************************************************************)
C20_ExitStatus ==
    phase = "exited" =>
        /\ (\/ \E i \in 1..Len(steps) : i <= 4 /\ ~steps[i].ok
            \/ status = "timeout"
            \/ ~source.exists
            \/ output = NoSheet) => exit_status # 0
        /\ exit_status = 0 =>
              /\ Returned("run_data_extraction") = {TRUE}
              /\ Returned("run_data_processing") = {TRUE}
              /\ source.exists
              /\ output # NoSheet

\* how many times a script has been started as a subprocess
Starts(script) == Cardinality({i \in 1..Len(spawned) : spawned[i] = script})

(***************************************************************************)
(* C21. Timeouts are failures and nothing is retried: main.py is not left  *)
(* running past 300 seconds and map.py not past 120 seconds; a phase whose *)
(* subprocess timed out has failed and the pipeline goes on to its return; *)
(* each of the two scripts is started at most once in a run.               *)
(***************************************************************************)
C21_TimeoutsFailWithoutRetry ==
    /\ (phase = "run_data_extraction" /\ fpc \notin {"idle", "exited", "timeout"}) =>
          elapsed * 60 <= 300
    /\ (phase = "run_data_processing" /\ pc \in {"start", "mapping"}) =>
          elapsed * 60 <= 120
    /\ fpc = "timeout" =>
          /\ Returned("run_data_extraction") = {FALSE}
          /\ phase \in {"return", "exited"}
          /\ pc = "idle"
    /\ status = "timeout" =>
          /\ Returned("run_data_processing") = {FALSE}
          /\ phase \in {"return", "exited"}
    /\ phase = "exited" /\ (fpc = "timeout" \/ status = "timeout") => exit_status = 1
    /\ Starts("main.py") <= 1
    /\ Starts("map.py") <= 1

\* map.py was killed after 120 seconds and the pipeline has ended, each script
\* started once
C21_Witness ==
    /\ status = "timeout"
    /\ elapsed * 60 = 120
    /\ spawned = <<"main.py", "map.py">>
    /\ phase = "exited"
    /\ exit_status = 1

(***************************************************************************)
(* Vocabulary of the properties of the fetcher                             *)
(***************************************************************************)
IsPrimary(attempt) == attempt.strategy = "primary"

\* the steps of the workflow that have been executed, in the order of execution
Executed == [i \in 1..Len(SelectSeq(attempts, IsPrimary)) |->
                SelectSeq(attempts, IsPrimary)[i].step]

\* the attempt at position i is the last one its step makes
LastOfStep(i) == i = Len(attempts) \/ attempts[i + 1].step # attempts[i].step

\* the steps that reported failure
FailedSteps == {attempts[i].step : i \in {j \in 1..Len(attempts) :
                                            LastOfStep(j) /\ ~attempts[j].ok}}

(***************************************************************************)
(* C22. Order of the workflow and abort: the steps are executed in the     *)
(* order navigate, select all members, Commitments/Borrowings radio,       *)
(* Borrowings radio, borrowings checkboxes, Current, submit, download; a   *)
(* step that reports failure is the last step executed, and the automation *)
(* then returns failure.                                                   *)
(***************************************************************************)
C22_WorkflowOrderAndAbort ==
    /\ Len(Executed) <= Len(WORKFLOW)
    /\ \A i \in 1..Len(Executed) : Executed[i] = WORKFLOW[i]
    /\ \A i \in 1..Len(attempts) :
          (LastOfStep(i) /\ ~attempts[i].ok) => i = Len(attempts)
    /\ FailedSteps # {} =>
          /\ automation = "failure"
          /\ fpc \in {"finally", "returned", "exited"}
    /\ automation = "success" =>
          /\ Executed = WORKFLOW
          /\ FailedSteps = {}

\* the query could not be submitted: the download was not attempted, the script
\* has ended and the automation returned failure
C22_Witness ==
    /\ fpc = "exited"
    /\ Len(Executed) = 7
    /\ FailedSteps = {"submit_query"}
    /\ automation = "failure"

(***************************************************************************)
(* C23. Fallback of the fetcher: every step of the workflow whose first    *)
(* attempt fails makes exactly one more attempt, with its fallback         *)
(* selector or strategy, and reports failure only after that one failed.   *)
(***************************************************************************)
C23_OneFallbackPerStep ==
    \A i \in 1..Len(attempts) :
        (IsPrimary(attempts[i]) /\ ~attempts[i].ok) =>
            /\ i < Len(attempts)
            /\ attempts[i + 1].step = attempts[i].step
            /\ attempts[i + 1].strategy = "fallback"
            /\ LastOfStep(i + 1)

(***************************************************************************)
(* C24. A missing download is a failure of the fetcher: when no file is in *)
(* the downloads directory after the download step, that step has reported *)
(* failure and the automation does not return success.                     *)
(***************************************************************************)
C24_MissingDownloadFails ==
    (/\ Len(attempts) > 0
     /\ attempts[Len(attempts)].step = "download_excel_file"
     /\ ~source.exists) =>
        /\ ~attempts[Len(attempts)].ok
        /\ automation # "success"

(***************************************************************************)
(* C25. No stale artifact is consumed: map.py is started only in a run in  *)
(* which the automation of the fetcher returned success, whatever file an  *)
(* earlier run left in the downloads directory.                            *)
(***************************************************************************)
C25_NoStaleArtifact ==
    pc # "idle" => automation = "success"

(***************************************************************************)
(* C28. Release of the browser: whenever run_complete_automation() has     *)
(* returned, with success, after a step that failed or after an exception, *)
(* the browser has been quit; and once the browser is quit no step of the  *)
(* workflow is executed.                                                   *)
(***************************************************************************)
C28_BrowserReleased ==
    /\ []((fpc \in {"returned", "exited"} /\ automation # "") => driver = "quit")
    /\ [][driver = "quit" => attempts' = attempts /\ driver' = "quit"]_vars

\* the automation returned failure after the Borrowings radio button could not
\* be selected, and the browser has been quit
C28_Witness ==
    /\ fpc = "returned"
    /\ automation = "failure"
    /\ FailedSteps = {"select_borrowings_radio"}
    /\ driver = "quit"

(***************************************************************************)
(* C26. The code tier is sound: for every code the tier accepts, the       *)
(* country of the code table has the registry entry NABIMFD.<code>.M; the  *)
(* loop turn of a record the code tier resolves writes the amount in the   *)
(* column of the record's own code, in upper case, and in no other column. *)
(***************************************************************************)
C26_CodeTierSound ==
    /\ [](\A i \in 1..Len(THREE_LETTER_CODES) :
            MatchedCountry(THREE_LETTER_CODES[i]) # "" =>
                DictGet(COUNTRY_CODES, MatchedCountry(THREE_LETTER_CODES[i]))
                    = OutputCode(THREE_LETTER_CODES[i]))
    /\ [][(/\ AtRecord
           /\ amount_of(filtered_df[pos]) # None
           /\ CodeTierColumns(filtered_df[pos]) # {})
          => /\ CodeTierColumns(filtered_df[pos])
                  = {ColumnOf(OutputCode(upper(member_code_of(filtered_df[pos]))))}
             /\ data_row' = WithAmount(data_row, CodeTierColumns(filtered_df[pos]),
                                       amount_of(filtered_df[pos]))]_vars

\* a record with the code "fra" and a name that is no country's went through
\* the loop and its amount is in the column of France
C26_Witness ==
    /\ pc = "mapping" /\ pos = 2
    /\ member_code_of(filtered_df[1]) = "fra"
    /\ CodeTierColumns(filtered_df[1]) # {}
    /\ data_row[ColumnOf("NABIMFD.FRA.M")] = amount_of(filtered_df[1])

(***************************************************************************)
(* C27. No resolvable record is lost before the resolver: in a sheet that  *)
(* was written, every row of the artifact whose facility, trimmed, is      *)
(* "New Arrangement to Borrow", whose amount parses and which the resolver *)
(* maps to a column has that column of row 3 filled, whatever its member   *)
(* name holds.                                                             *)
(***************************************************************************)
C27_NoResolvableRecordLost ==
    (pc = "done" /\ status = "saved") =>
        \A k \in 1..Len(source.rows) :
            Contributes(source.rows[k]) =>
                \A c \in ResolvedColumns(ReadRow(source.rows[k])) :
                    output.rows[3][c] # None

=============================================================================
